---- MODULE Spec2Model ----
(***************************************************************************)
(* get_access_token (src/src/gemini_webapi/utils/get_access_token.py):     *)
(* collection of candidate cookie sets from the base cookies, the cache    *)
(* directory and the browser store, one probe task per candidate, and the  *)
(* race over the probes' completions.                                      *)
(*                                                                         *)
(* Text values (cookie values, file names, file contents, response text)   *)
(* are sequences of one-character strings, the empty string being << >>.   *)
(* Dictionaries are objects of a heap (a sequence of mappings) addressed   *)
(* by reference, so that aliasing and in-place updates are visible.        *)
(***************************************************************************)
EXTENDS Integers, Sequences, FiniteSets, TLC

\* Largest number of files in the cache directory.
MaxCacheFiles == 2

\* ------------------------------------------------------------------ text

PSID == "__Secure-1PSID"
PSIDTS == "__Secure-1PSIDTS"
NID == "NID"

\* ".cached_1psidts_" (line 72, line 85) and ".txt"
CachePrefix ==
    <<".", "c", "a", "c", "h", "e", "d", "_", "1", "p", "s", "i", "d", "t", "s", "_">>
CacheSuffix == <<".", "t", "x", "t">>

\* f".cached_1psidts_{base_cookies['__Secure-1PSID']}.txt"
Filename(psid) == CachePrefix \o psid \o CacheSuffix

\* pathlib's PurePath.stem: the name without its last suffix; a name whose
\* only dot is its first or its last character has no suffix.
Stem(name) ==
    LET dots == {j \in 1..Len(name) : name[j] = "."}
        last == CHOOSE j \in dots : \A k \in dots : k <= j
    IN  IF dots # {} /\ 1 < last /\ last < Len(name)
        THEN SubSeq(name, 1, last - 1)
        ELSE name

\* cache_file.name[16:]: the suffix is kept
NameSlice(name) == SubSeq(name, 17, Len(name))

\* cache_file.stem[16:]
StemSlice(name) == SubSeq(Stem(name), 17, Len(Stem(name)))

\* the names cache_dir.glob(".cached_1psidts_*.txt") yields
GlobMatches(name) ==
    /\ Len(name) >= Len(CachePrefix) + Len(CacheSuffix)
    /\ SubSeq(name, 1, Len(CachePrefix)) = CachePrefix
    /\ SubSeq(name, Len(name) - Len(CacheSuffix) + 1, Len(name)) = CacheSuffix

\* the literal "SNlM0e":" of the pattern, and the closing quote
MARK == "\"SNlM0e\":\""
QUOTE == "\""

\* re.search(r'"SNlM0e":"(.*?)"', response.text): the first occurrence of
\* the literal that is followed by a quote, the group running lazily up to
\* the nearest quote.
ReSearch(text) ==
    LET starts == {p \in 1..Len(text) :
                      /\ text[p] = MARK
                      /\ \E q \in (p + 1)..Len(text) : text[q] = QUOTE}
        p0 == CHOOSE p \in starts : \A r \in starts : p <= r
        q0 == CHOOSE q \in (p0 + 1)..Len(text) :
                  /\ text[q] = QUOTE
                  /\ \A r \in (p0 + 1)..(q - 1) : text[r] # QUOTE
    IN  IF starts = {}
        THEN [found |-> FALSE, group |-> << >>]
        ELSE [found |-> TRUE, group |-> SubSeq(text, p0 + 1, q0 - 1)]

\* ---------------------------------------------------------------- inputs

\* identities under which a cache file may exist
Ids == {<< >>, <<"a">>, <<"g", ".", "a">>}

BaseValues(k) ==
    IF k = PSID THEN Ids
    ELSE IF k = PSIDTS THEN {<<"t", "0">>}
    ELSE {<<"n">>}

\* every mapping from some of the names to one of the values allowed for it
BaseCookieSets ==
    UNION {{f \in [D -> UNION {BaseValues(k) : k \in D}] :
               \A k \in D : f[k] \in BaseValues(k)} :
           D \in SUBSET {PSID, PSIDTS, NID}}

\* a cache file: readable or not, and its text
FileStates ==
    {[readable |-> FALSE, text |-> << >>]}
        \cup {[readable |-> TRUE, text |-> t] : t \in {<< >>, <<"t", "1">>}}

CacheDirs ==
    UNION {[F -> FileStates] :
           F \in {G \in SUBSET {Filename(id) : id \in Ids} :
                     Cardinality(G) <= MaxCacheFiles}}

BrowserValues(k) ==
    IF k = PSID THEN {<< >>, <<"b">>} ELSE {<< >>, <<"t", "b">>}

\* what load_browser_cookies does: raises ImportError, raises another
\* exception, returns None, or returns a mapping
BrowserResults ==
    {[kind |-> x, cookies |-> << >>] : x \in {"ImportError", "Exception", "None"}}
        \cup {[kind |-> "dict", cookies |-> c] :
              c \in UNION {{f \in [D -> UNION {BrowserValues(k) : k \in D}] :
                               \A k \in D : f[k] \in BrowserValues(k)} :
                           D \in SUBSET {PSID, PSIDTS}}}

\* the token the server puts in its answer to the probe of candidate t
Digit(t) == <<"1", "2", "3", "4", "5", "6", "7", "8", "9">>[t]
TokOf(t) == <<"k", Digit(t)>>

\* what the probe of candidate t ends with: an exception inside client.get,
\* or a response with a status and a text
Responses(t) ==
    {[exc |-> TRUE, status |-> 0, text |-> << >>],
     [exc |-> FALSE, status |-> 403, text |-> <<"x", MARK, "k", Digit(t), QUOTE, "x">>],
     [exc |-> FALSE, status |-> 200, text |-> <<"x", QUOTE, "x">>],
     [exc |-> FALSE, status |-> 200, text |-> <<"x", MARK, "k", Digit(t), QUOTE, "x">>]}

\* ------------------------------------------------------------------ state

VARIABLES
    base0,          \* the base cookies as they were at the call
    cache_dir,      \* the cache directory: file name -> file
    browser,        \* the result of load_browser_cookies
    heap,           \* the dictionaries; heap[BaseRef] is base_cookies
    tasks,          \* the probe tasks: the dictionary sent and the response
    cache_files,    \* the files of the scan still to visit
    valid_caches,   \* line 84
    order,          \* the tasks in the order they completed
    i,              \* completions consumed by the loop of line 124
    pc,             \* where get_access_token is
    result          \* how get_access_token ended

vars ==
    <<base0, cache_dir, browser, heap, tasks, cache_files, valid_caches, order, i,
      pc, result>>

BaseRef == 1
base_cookies == heap[BaseRef]

NoResult ==
    [kind |-> "none", token |-> << >>, cookies |-> 0, task |-> 0, attempts |-> 0]

Init ==
    /\ base0 \in BaseCookieSets
    /\ cache_dir \in CacheDirs
    /\ browser \in BrowserResults
    /\ heap = <<base0>>
    /\ tasks = << >>
    /\ cache_files = {}
    /\ valid_caches = 0
    /\ order = << >>
    /\ i = 0
    /\ pc = "direct"
    /\ result = NoResult

\* --------------------------------------------------------------- helpers

\* two probes for the candidate: the second a retry of the first
LaunchTwice(ref, r, src) ==
    Append(Append(tasks, [cookies |-> ref, resp |-> r, src |-> src]),
           [cookies |-> ref, resp |-> r, src |-> src])

\* tasks.append(Task(send_request(cookies))): the task holds the dictionary
\* it was given (lines 48-57); r is what its request will end with, src the
\* rule that launched it (kept for the properties only)
Launch(ref, r, src) == Append(tasks, [cookies |-> ref, resp |-> r, src |-> src])

\* either key is enough
HasEitherKey(c) == PSID \in DOMAIN c \/ PSIDTS \in DOMAIN c

\* only the secondary key is looked for
HasSecondaryKey(c) == PSIDTS \in DOMAIN c

\* line 62
HasBothKeys(c) == PSID \in DOMAIN c /\ PSIDTS \in DOMAIN c

\* the keyed lookup only as a fallback for base cookies without a direct candidate
KeyedBranchFallbackOnly(c) == PSID \in DOMAIN c /\ PSIDTS \notin DOMAIN c

\* line 71: which cache branch runs
KeyedBranch(c) == PSID \in DOMAIN c

\* cache_file.is_file(), line 74
IsFile(name) == name \in DOMAIN cache_dir

\* {"__Secure-1PSIDTS": cached_1psidts, **base_cookies}: the base value wins
MergedBaseWins(c, v) ==
    [k \in DOMAIN c \cup {PSIDTS} |-> IF k \in DOMAIN c THEN c[k] ELSE v]

\* {**base_cookies, "__Secure-1PSIDTS": cached_1psidts}
Merged(c, v) == [k \in DOMAIN c \cup {PSIDTS} |-> IF k = PSIDTS THEN v ELSE c[k]]

\* a dictionary display allocates a new dictionary
NewDict(h, d) == [heap |-> Append(h, d), ref |-> Len(h) + 1]

\* base_cookies["__Secure-1PSIDTS"] = cached_1psidts, in place
MergeCachedInPlace(h, v) ==
    [heap |-> [h EXCEPT ![BaseRef] = Merged(h[BaseRef], v)], ref |-> BaseRef]

\* line 77: cached_cookies is a new dictionary, base_cookies is only read
MergeCached(h, v) == NewDict(h, Merged(h[BaseRef], v))

\* lines 89-92
ScannedCookies(name, text) == (PSID :> StemSlice(name)) @@ (PSIDTS :> text)

\* line 106: browser_cookies and browser_cookies.get("__Secure-1PSID")
BrowserHasPsid(b) ==
    /\ b.kind = "dict"
    /\ DOMAIN b.cookies # {}
    /\ PSID \in DOMAIN b.cookies
    /\ b.cookies[PSID] # << >>

\* lines 107-109
LocalCookies(c) ==
    IF PSIDTS \in DOMAIN c /\ c[PSIDTS] # << >>
    THEN (PSID :> c[PSID]) @@ (PSIDTS :> c[PSIDTS])
    ELSE (PSID :> c[PSID])

\* only the missing optional dependency is caught
BrowserCaughtImportOnly(kind) == kind = "ImportError"

\* lines 115 and 120: the exceptions of the browser step that are caught
BrowserCaught(kind) == kind \in {"ImportError", "Exception"}

\* an exception leaves get_access_token
Raised(kind) == [NoResult EXCEPT !.kind = kind]

\* send_request without raise_for_status
AwaitRaisesTransportOnly(r) == r.exc

\* lines 55-56 and 126: awaiting the task raises when client.get raised or
\* raise_for_status found a status that is no success
AwaitRaises(r) == r.exc \/ ~(200 <= r.status /\ r.status <= 299)

\* the probe of task t gives a response that carries the marker
Valid(t) == ~AwaitRaises(tasks[t].resp) /\ ReSearch(tasks[t].resp.text).found

\* awaiting the tasks in the order of the list
NextSubmitted(ord, n) == n + 1

\* asyncio.as_completed: the next future is the next task to have completed
NextCompleted(ord, n) == ord[n + 1]

\* return match.group(1), base_cookies
ReturnValueBase(t, group) ==
    [kind |-> "return", token |-> group, cookies |-> BaseRef, task |-> t,
     attempts |-> 0]

\* the cookies of the candidate collected last, whichever probe answered
ReturnValueLastCookies(t, group) ==
    [kind |-> "return", token |-> group, cookies |-> tasks[Len(tasks)].cookies,
     task |-> t, attempts |-> 0]

\* line 133: return match.group(1), request_cookies
ReturnValue(t, group) ==
    [kind |-> "return", token |-> group, cookies |-> tasks[t].cookies, task |-> t,
     attempts |-> 0]

\* the count of the attempts that ended with an exception only
ExhaustedErrorCountingRaises ==
    [NoResult EXCEPT !.kind = "AuthError",
                     !.attempts = Cardinality({t \in 1..Len(tasks) :
                                                  AwaitRaises(tasks[t].resp)})]

\* an empty task list refused, as asyncio.wait refuses it
ExhaustedErrorEmptyRefused ==
    [NoResult EXCEPT !.kind = IF tasks = << >> THEN "ValueError" ELSE "AuthError",
                     !.attempts = Len(tasks)]

\* lines 144-147
ExhaustedError == [NoResult EXCEPT !.kind = "AuthError", !.attempts = Len(tasks)]

\* --------------------------------------------------------------- actions

\* lines 61-67
CollectDirect ==
    /\ pc = "direct"
    /\ IF HasBothKeys(base_cookies)
       THEN \E r \in Responses(Len(tasks) + 1) : tasks' = Launch(BaseRef, r, "direct")
       ELSE tasks' = tasks
    /\ pc' = "cache"
    /\ UNCHANGED <<base0, cache_dir, browser, heap, cache_files, valid_caches, order,
                   i, result>>

\* lines 71-82
CollectCacheKeyed ==
    /\ pc = "cache"
    /\ KeyedBranch(base_cookies)
    /\ LET cache_file == Filename(base_cookies[PSID])
       IN  IF ~IsFile(cache_file)
           THEN /\ pc' = "browser"
                /\ UNCHANGED <<heap, tasks, result>>
           ELSE IF ~cache_dir[cache_file].readable
           THEN \* read_text raises, nothing catches it
                /\ pc' = "done"
                /\ result' = Raised("OSError")
                /\ UNCHANGED <<heap, tasks>>
           ELSE IF cache_dir[cache_file].text # << >>
           THEN /\ \E r \in Responses(Len(tasks) + 1) :
                      LET m == MergeCached(heap, cache_dir[cache_file].text)
                      IN  /\ heap' = m.heap
                          /\ tasks' = Launch(m.ref, r, "cache")
                /\ pc' = "browser"
                /\ UNCHANGED result
           ELSE /\ pc' = "browser"
                /\ UNCHANGED <<heap, tasks, result>>
    /\ UNCHANGED <<base0, cache_dir, browser, cache_files, valid_caches, order, i>>

\* lines 83-85
CacheScanStart ==
    /\ pc = "cache"
    /\ ~KeyedBranch(base_cookies)
    /\ valid_caches' = 0
    /\ cache_files' = {n \in DOMAIN cache_dir : GlobMatches(n)}
    /\ pc' = "scan"
    /\ UNCHANGED <<base0, cache_dir, browser, heap, tasks, order, i, result>>

\* lines 86-94: one turn of the loop, the files coming in the directory's order
CacheScanStep ==
    /\ pc = "scan"
    /\ \E cache_file \in cache_files :
          /\ cache_files' = cache_files \ {cache_file}
          /\ IF ~cache_dir[cache_file].readable
             THEN \* read_text raises, nothing catches it
                  /\ pc' = "done"
                  /\ result' = Raised("OSError")
                  /\ UNCHANGED <<heap, tasks, valid_caches>>
             ELSE IF cache_dir[cache_file].text # << >>
             THEN /\ \E r \in Responses(Len(tasks) + 1) :
                        LET m == NewDict(heap, ScannedCookies(cache_file,
                                                              cache_dir[cache_file].text))
                        IN  /\ heap' = m.heap
                            /\ tasks' = Launch(m.ref, r, "scan")
                  /\ valid_caches' = valid_caches + 1
                  /\ UNCHANGED <<pc, result>>
             ELSE UNCHANGED <<heap, tasks, valid_caches, pc, result>>
    /\ UNCHANGED <<base0, cache_dir, browser, order, i>>

\* lines 96-99: the loop is over
CacheScanEnd ==
    /\ pc = "scan"
    /\ cache_files = {}
    /\ pc' = "browser"
    /\ UNCHANGED <<base0, cache_dir, browser, heap, tasks, cache_files, valid_caches,
                   order, i, result>>

\* lines 101-122
CollectBrowser ==
    /\ pc = "browser"
    /\ IF browser.kind \in {"ImportError", "Exception"}
       THEN IF BrowserCaught(browser.kind)
            THEN /\ pc' = "race"
                 /\ UNCHANGED <<heap, tasks, result>>
            ELSE /\ pc' = "done"
                 /\ result' = Raised(browser.kind)
                 /\ UNCHANGED <<heap, tasks>>
       ELSE IF BrowserHasPsid(browser)
       THEN /\ \E r \in Responses(Len(tasks) + 1) :
                  LET m == NewDict(heap, LocalCookies(browser.cookies))
                  IN  /\ heap' = m.heap
                      /\ tasks' = Launch(m.ref, r, "browser")
            /\ pc' = "race"
            /\ UNCHANGED result
       ELSE /\ pc' = "race"
            /\ UNCHANGED <<heap, tasks, result>>
    /\ UNCHANGED <<base0, cache_dir, browser, cache_files, valid_caches, order, i>>

\* the probes run one after the other, in the order of the list
ProbeCompleteInTurn ==
    /\ pc \in {"race", "done"}
    /\ Len(order) < Len(tasks)
    /\ order' = Append(order, Len(order) + 1)
    /\ UNCHANGED <<base0, cache_dir, browser, heap, tasks, cache_files, valid_caches,
                   i, pc, result>>

\* a probe task finishes (lines 48-57): the tasks run only while
\* get_access_token awaits at line 126, or, left behind, after it has ended
ProbeComplete ==
    /\ pc \in {"race", "done"}
    /\ \E t \in 1..Len(tasks) :
          /\ \A p \in 1..Len(order) : order[p] # t
          /\ order' = Append(order, t)
    /\ UNCHANGED <<base0, cache_dir, browser, heap, tasks, cache_files, valid_caches,
                   i, pc, result>>

\* the loop without its try: the exception of a failed probe leaves the call
ConsumeWithoutTry ==
    /\ pc = "race"
    /\ i < Len(tasks)
    /\ i < Len(order)
    /\ LET t == NextCompleted(order, i)
           r == tasks[t].resp
           match == ReSearch(r.text)
       IN  IF AwaitRaises(r)
           THEN /\ result' = Raised("Exception")
                /\ pc' = "done"
                /\ UNCHANGED i
           ELSE IF match.found
           THEN /\ result' = ReturnValue(t, match.group)
                /\ pc' = "done"
                /\ UNCHANGED i
           ELSE /\ i' = i + 1
                /\ UNCHANGED <<pc, result>>
    /\ UNCHANGED <<base0, cache_dir, browser, heap, tasks, cache_files, valid_caches,
                   order>>

\* lines 124-142: one turn of the loop over the completions
Consume ==
    /\ pc = "race"
    /\ i < Len(tasks)
    /\ i < Len(order)
    /\ LET t == NextCompleted(order, i)
           r == tasks[t].resp
           match == ReSearch(r.text)
       IN  IF AwaitRaises(r)
           THEN /\ i' = i + 1
                /\ UNCHANGED <<pc, result>>
           ELSE IF match.found
           THEN /\ result' = ReturnValue(t, match.group)
                /\ pc' = "done"
                /\ UNCHANGED i
           ELSE /\ i' = i + 1
                /\ UNCHANGED <<pc, result>>
    /\ UNCHANGED <<base0, cache_dir, browser, heap, tasks, cache_files, valid_caches,
                   order>>

\* lines 144-147: the loop is over without a return
Exhausted ==
    /\ pc = "race"
    /\ i = Len(tasks)
    /\ result' = ExhaustedError
    /\ pc' = "done"
    /\ UNCHANGED <<base0, cache_dir, browser, heap, tasks, cache_files, valid_caches,
                   order, i>>

Next ==
    \/ CollectDirect
    \/ CollectCacheKeyed
    \/ CacheScanStart
    \/ CacheScanStep
    \/ CacheScanEnd
    \/ CollectBrowser
    \/ ProbeComplete
    \/ Consume
    \/ Exhausted

Spec == Init /\ [][Next]_vars

\* the steps of get_access_token itself
CallStep ==
    \/ CollectDirect
    \/ CollectCacheKeyed
    \/ CacheScanStart
    \/ CacheScanStep
    \/ CacheScanEnd
    \/ CollectBrowser
    \/ Consume
    \/ Exhausted

\* The call runs on whenever it can take a step (its code between two awaits
\* is sequential), and every probe launched completes in the end: the
\* request of line 55 ends with a response or with an error.
LiveSpec == Spec /\ WF_vars(CallStep) /\ WF_vars(ProbeComplete)

\* ------------------------------------------------------------ properties

\* the candidates whose probe gives a success status and the marker
ValidTasks == {t \in 1..Len(tasks) : Valid(t)}

\* the race ran to its end: a return or the authentication error
RaceEnded == pc = "done" /\ result.kind \in {"return", "AuthError"}

\* the place of task t in the completion order, 0 while it is outstanding
PlaceOf(t) ==
    IF \E p \in 1..Len(order) : order[p] = t
    THEN CHOOSE p \in 1..Len(order) : order[p] = t
    ELSE 0

\* C1: when exactly one candidate's probe gives a marker-bearing response,
\* the race ends with that candidate's token and that candidate's cookie
\* set, wherever it stands in the list and whenever it completes.
C1_UniqueValidWins ==
    (RaceEnded /\ Cardinality(ValidTasks) = 1) =>
        \A t \in ValidTasks :
            /\ result.kind = "return"
            /\ result.task = t
            /\ result.token = TokOf(t)
            /\ result.cookies = tasks[t].cookies

\* C1 witness: three candidates, the valid one neither first in the list
\* nor first to complete, a failing one completing after it.
C1_Witness ==
    /\ RaceEnded
    /\ Len(tasks) = 3
    /\ Len(order) = 3
    /\ Cardinality(ValidTasks) = 1
    /\ \E t \in ValidTasks : t # 1 /\ PlaceOf(t) = 2 /\ result.task = t

\* C2: the result is that of the valid probe that completed earliest: the
\* task returned is the one at the place the loop had reached in the
\* completion order, it is valid, and every completion before it is not.
C2_EarliestValidWins ==
    result.kind = "return" =>
        /\ i < Len(order)
        /\ order[i + 1] = result.task
        /\ result.task \in ValidTasks
        /\ \A q \in 1..i : order[q] \notin ValidTasks
        /\ \A t \in ValidTasks : PlaceOf(t) = 0 \/ PlaceOf(t) >= PlaceOf(result.task)

\* C2 witness: two valid candidates, the one launched later completed first
\* and is returned while the other is still outstanding.
C2_Witness ==
    /\ result.kind = "return"
    /\ Cardinality(ValidTasks) >= 2
    /\ \E t \in ValidTasks : t < result.task /\ PlaceOf(t) = 0
    /\ Len(order) < Len(tasks)

\* C3: when no candidate's probe gives a marker-bearing response, the race
\* ends with the authentication error once every completion is consumed,
\* and the error's count is the number of candidates launched.
C3_NoValidFails ==
    (RaceEnded /\ ValidTasks = {}) =>
        /\ result.kind = "AuthError"
        /\ result.attempts = Len(tasks)
        /\ i = Len(tasks)
        /\ Len(order) = Len(tasks)

\* C3 witness: three candidates failing in three ways (exception, status,
\* no marker), all consumed.
C3_Witness ==
    /\ RaceEnded
    /\ Len(tasks) = 3
    /\ ValidTasks = {}
    /\ \E t \in 1..3 : tasks[t].resp.exc
    /\ \E t \in 1..3 : tasks[t].resp.status = 403
    /\ \E t \in 1..3 : tasks[t].resp.status = 200
    /\ result.attempts = 3

\* C4: with no candidate collected the only step of the race is the
\* authentication error with count 0: no probe exists, none completes, no
\* completion is consumed.
C4_EmptyFailsAtOnce ==
    (pc \in {"race", "done"} /\ result.kind # "OSError" /\ tasks = << >>) =>
        /\ order = << >>
        /\ i = 0
        /\ pc = "race" => ENABLED Exhausted /\ ~ENABLED Consume /\ ~ENABLED ProbeComplete
        /\ pc = "done" => result.kind = "AuthError" /\ result.attempts = 0

\* C4 witness: base cookies {}, cache empty, browser unavailable.
C4_Witness ==
    /\ pc = "done"
    /\ base0 = << >>
    /\ DOMAIN cache_dir = {}
    /\ browser.kind = "ImportError"
    /\ result.kind = "AuthError"
    /\ result.attempts = 0

\* C5: the authentication error is the only error that leaves
\* get_access_token: it ends with a return or with AuthError.
C5_OnlyAuthErrorRaised == pc = "done" => result.kind \in {"return", "AuthError"}

\* the step reads a cache file whose read fails: the keyed file (line 75),
\* or the file the scan visits in this step (line 87)
CacheReadFails ==
    \/ /\ pc = "cache"
       /\ PSID \in DOMAIN base0
       /\ Filename(base0[PSID]) \in DOMAIN cache_dir
       /\ ~cache_dir[Filename(base0[PSID])].readable
    \/ /\ pc = "scan"
       /\ \E f \in cache_files \ cache_files' : ~cache_dir[f].readable

\* C6: a failed cache read is not fatal: the failing entry adds no
\* candidate and collection goes on (to the next entry or to the browser).
C6_CacheFailureNonFatal ==
    [][CacheReadFails =>
          /\ tasks' = tasks
          /\ pc' \in {"scan", "browser"}
          /\ result' = result]_vars

\* C7: a failure of the browser source is swallowed: the step adds no
\* candidate, leaves the candidates collected so far as they are, and hands
\* over to the race.
C7_BrowserFailureSwallowed ==
    [][(pc = "browser" /\ browser.kind \in {"ImportError", "Exception"}) =>
          /\ tasks' = tasks
          /\ heap' = heap
          /\ result' = result
          /\ pc' = "race"]_vars

\* C7 witness: the browser store raised, and the race over the candidates
\* of the other sources returned one of them.
C7_Witness ==
    /\ browser.kind = "Exception"
    /\ Len(tasks) = 2
    /\ result.kind = "return"

\* the text of the cache entry keyed by the base identity, when that entry
\* exists, is readable and is not empty
KeyedEntryUsable ==
    /\ PSID \in DOMAIN base0
    /\ Filename(base0[PSID]) \in DOMAIN cache_dir
    /\ cache_dir[Filename(base0[PSID])].readable
    /\ cache_dir[Filename(base0[PSID])].text # << >>

KeyedEntryText == cache_dir[Filename(base0[PSID])].text

\* the identities whose cache entry is readable and not empty
UsableIds ==
    {id \in Ids :
        /\ Filename(id) \in DOMAIN cache_dir
        /\ cache_dir[Filename(id)].readable
        /\ cache_dir[Filename(id)].text # << >>}

\* the cookie sets of the tasks, in the order of the list
CandidateSets == [t \in 1..Len(tasks) |-> heap[tasks[t].cookies]]

\* each usable cache entry is its own candidate, and there is no other
EachEntryItsOwnCandidate ==
    /\ Len(tasks) = Cardinality(UsableIds)
    /\ \A id \in UsableIds :
          Cardinality({t \in 1..Len(tasks) :
                          CandidateSets[t] =
                              (PSID :> id) @@ (PSIDTS :> cache_dir[Filename(id)].text)}) = 1

\* C8 as stated: with the identity key in the base input, a direct and a
\* cache candidate for that identity are launched as one candidate, the
\* base enriched with the cached value; without it, each scanned entry is
\* its own candidate.
C8_OneCandidatePerIdentity ==
    pc = "browser" =>
        /\ (PSID \in DOMAIN base0 /\ PSIDTS \in DOMAIN base0 /\ KeyedEntryUsable) =>
              /\ Len(tasks) = 1
              /\ CandidateSets[1] = Merged(base0, KeyedEntryText)
        /\ PSID \notin DOMAIN base0 => EachEntryItsOwnCandidate

\* C8 amended: with the identity key in the base input the cache is not
\* scanned; the direct candidate (base holds both keys) and the keyed cache
\* candidate (the keyed entry is usable) are launched side by side, as two
\* dictionaries; without the key there is no direct candidate and each
\* usable entry is its own candidate.
C8_DirectAndCacheSideBySide ==
    pc = "browser" =>
        IF PSID \in DOMAIN base0
        THEN /\ CandidateSets =
                   (IF PSIDTS \in DOMAIN base0 THEN <<base0>> ELSE << >>)
                       \o (IF KeyedEntryUsable
                           THEN <<Merged(base0, KeyedEntryText)>>
                           ELSE << >>)
             /\ \A t, u \in 1..Len(tasks) : t # u => tasks[t].cookies # tasks[u].cookies
        ELSE EachEntryItsOwnCandidate

\* C8 witness: base holds both keys, the keyed entry is usable, and two
\* candidates of that identity are launched.
C8_Witness ==
    /\ pc = "browser"
    /\ PSID \in DOMAIN base0
    /\ PSIDTS \in DOMAIN base0
    /\ KeyedEntryUsable
    /\ Len(tasks) = 2
    /\ CandidateSets[1][PSID] = CandidateSets[2][PSID]

\* C9: the caller's base cookies are never changed, and the candidate
\* merged from the cache is another dictionary than the caller's.
C9_BaseNotMutated ==
    /\ heap[BaseRef] = base0
    /\ \A t \in 1..Len(tasks) : tasks[t].src = "cache" => tasks[t].cookies # BaseRef

\* C9 witness: base holds a secondary value, the cache holds another, and
\* the merged candidate is the one returned.
C9_Witness ==
    /\ result.kind = "return"
    /\ tasks[result.task].src = "cache"
    /\ PSIDTS \in DOMAIN base0
    /\ heap[result.cookies][PSIDTS] # base0[PSIDTS]

\* C10: the classification depends on the inputs and the server alone: the
\* call succeeds exactly when a launched candidate has a marker-bearing
\* response.
C10_SuccessIffSomeValid == pc = "done" => (result.kind = "return" <=> ValidTasks # {})

\* C11: the token returned was read from the response of the probe that was
\* sent with the cookie set returned (each response carries a token of its
\* own); for base cookies holding the identity key alone and a usable keyed
\* entry, the set returned with the cache candidate's token is the merged set.
C11_TokenAndCookiesFromOneProbe ==
    result.kind = "return" =>
        /\ \E t \in 1..Len(tasks) :
              /\ ReSearch(tasks[t].resp.text).found
              /\ ReSearch(tasks[t].resp.text).group = result.token
              /\ tasks[t].cookies = result.cookies
        /\ \A t \in 1..Len(tasks) :
              (/\ ReSearch(tasks[t].resp.text).found
               /\ ReSearch(tasks[t].resp.text).group = result.token)
                  => tasks[t].cookies = result.cookies
        /\ (DOMAIN base0 = {PSID} /\ tasks[result.task].src = "cache") =>
              heap[result.cookies] = (PSID :> base0[PSID]) @@ (PSIDTS :> KeyedEntryText)

\* C11 witness: base cookies hold the identity key alone, the cache and the
\* browser candidates are both valid, and the cache candidate is returned
\* with the merged set.
C11_Witness ==
    /\ result.kind = "return"
    /\ DOMAIN base0 = {PSID}
    /\ Len(tasks) = 2
    /\ ValidTasks = {1, 2}
    /\ tasks[result.task].src = "cache"
    /\ result.token = TokOf(1)
    /\ PSIDTS \in DOMAIN heap[result.cookies]

\* the probe of task t does not win: it raised, its status is no success,
\* or its text holds no marker
Fails(t) ==
    \/ tasks[t].resp.exc
    \/ tasks[t].resp.status \notin 200..299
    \/ ~ReSearch(tasks[t].resp.text).found

\* C12: the step that consumes a failing completion leaves the race
\* running, at the next completion and without a result; and the race
\* never ends with the authentication error while a candidate is valid.
C12_FailureNeverEndsRace ==
    [][/\ (/\ pc = "race"
           /\ i < Len(order)
           /\ i < Len(tasks)
           /\ (i' # i \/ pc' # pc)
           /\ Fails(order[i + 1]))
              => /\ pc' = "race"
                 /\ i' = i + 1
                 /\ result' = result
                 /\ tasks' = tasks
                 /\ order' = order
       /\ (pc = "race" /\ pc' = "done" /\ \E t \in 1..Len(tasks) : ~Fails(t))
              => result'.kind = "return"]_vars

\* C12 witness: a probe that raised and a probe without the marker completed
\* and were consumed first, and the valid probe that completed after them is
\* returned.
C12_Witness ==
    /\ result.kind = "return"
    /\ i = 2
    /\ Len(order) = 3
    /\ tasks[order[1]].resp.exc
    /\ ~tasks[order[2]].resp.exc
    /\ tasks[order[2]].resp.status = 200
    /\ result.task = order[3]

\* C13: the candidate returned has a response with a success status whose
\* text holds the marker; a response with the marker under another status,
\* or with a success status and no marker, is never the one returned.
C13_WinnerHasSuccessAndMarker ==
    /\ result.kind = "return" =>
          /\ ~tasks[result.task].resp.exc
          /\ tasks[result.task].resp.status \in 200..299
          /\ ReSearch(tasks[result.task].resp.text).found
          /\ result.token = ReSearch(tasks[result.task].resp.text).group
    /\ \A t \in 1..Len(tasks) :
          (/\ PlaceOf(t) # 0
           /\ PlaceOf(t) <= i
           /\ ReSearch(tasks[t].resp.text).found)
              => tasks[t].resp.status \notin 200..299

\* C13 witness: a 403 response holding the marker and a 200 response without
\* it were consumed and passed over before the candidate returned.
C13_Witness ==
    /\ result.kind = "return"
    /\ i = 2
    /\ \E p \in 1..2 :
          /\ tasks[order[p]].resp.status = 403
          /\ ReSearch(tasks[order[p]].resp.text).found
    /\ \E p \in 1..2 :
          /\ tasks[order[p]].resp.status = 200
          /\ ~ReSearch(tasks[order[p]].resp.text).found

\* C14: no completion exists or is consumed before every candidate is
\* launched; during the race each outstanding probe can complete whatever
\* the other probes have done, and a completion that is there can be
\* consumed whatever probes are still outstanding.
C14_ProbesIndependent ==
    /\ pc \in {"direct", "cache", "scan", "browser"} => order = << >> /\ i = 0
    /\ pc = "race" =>
          \A t \in 1..Len(tasks) :
              PlaceOf(t) = 0 => ENABLED (ProbeComplete /\ order' = Append(order, t))
    /\ (pc = "race" /\ i < Len(order)) => ENABLED Consume

\* C14 witness: of three probes the last launched completed first and is
\* returned, the two launched before it never having completed.
C14_Witness ==
    /\ result.kind = "return"
    /\ Len(tasks) = 3
    /\ order = <<3>>
    /\ result.task = 3

\* the number of candidates the three sources hold for these inputs
CandidateCount ==
    (IF PSID \in DOMAIN base0 /\ PSIDTS \in DOMAIN base0 THEN 1 ELSE 0)
        + (IF PSID \in DOMAIN base0
           THEN (IF KeyedEntryUsable THEN 1 ELSE 0)
           ELSE Cardinality(UsableIds))
        + (IF /\ browser.kind = "dict"
              /\ PSID \in DOMAIN browser.cookies
              /\ browser.cookies[PSID] # << >>
           THEN 1
           ELSE 0)

\* C15: during and after the race there are as many probe tasks as
\* candidates, each with a dictionary of its own; a probe completes once,
\* and no more completions are consumed than there are probes.
C15_OneProbePerCandidate ==
    /\ (pc = "race" \/ RaceEnded) => Len(tasks) = CandidateCount
    /\ \A t, u \in 1..Len(tasks) : t # u => tasks[t].cookies # tasks[u].cookies
    /\ \A p, q \in 1..Len(order) : p # q => order[p] # order[q]
    /\ \A p \in 1..Len(order) : order[p] \in 1..Len(tasks)
    /\ i <= Len(order)
    /\ Len(order) <= Len(tasks)

\* C15 witness: three candidates, three probes, each failed and consumed
\* once, and the call ended with the count 3.
C15_Witness ==
    /\ result.kind = "AuthError"
    /\ CandidateCount = 3
    /\ Len(tasks) = 3
    /\ i = 3
    /\ {order[p] : p \in 1..Len(order)} = {1, 2, 3}

\* the tasks launched by a cache rule
CacheTasks == {t \in 1..Len(tasks) : tasks[t].src \in {"cache", "scan"}}

\* C16: with the identity key in the base cookies, once the cache step is
\* over there is a cache candidate exactly when the entry keyed by that
\* identity exists and is not empty, there is only that one, and its cookie
\* set is the base cookies with the secondary key set to the cached value;
\* the other entries are never scanned.
C16_KeyedCacheRule ==
    (PSID \in DOMAIN base0 /\ pc # "direct") =>
        /\ pc # "scan"
        /\ Cardinality(CacheTasks) <= 1
        /\ pc # "cache" => (CacheTasks # {} <=> KeyedEntryUsable)
        /\ \A t \in CacheTasks :
              /\ tasks[t].src = "cache"
              /\ KeyedEntryUsable
              /\ DOMAIN heap[tasks[t].cookies] = DOMAIN base0 \cup {PSIDTS}
              /\ heap[tasks[t].cookies][PSIDTS] = KeyedEntryText
              /\ \A k \in DOMAIN base0 \ {PSIDTS} : heap[tasks[t].cookies][k] = base0[k]

\* C16 witness: base cookies with both keys and a third cookie, a usable
\* entry for the base identity and a usable entry for another identity; the
\* one cache candidate holds the cached value in place of the base's.
C16_Witness ==
    /\ pc = "race"
    /\ DOMAIN base0 = {PSID, PSIDTS, NID}
    /\ Cardinality(UsableIds) = 2
    /\ Cardinality(CacheTasks) = 1
    /\ \E t \in CacheTasks :
          /\ heap[tasks[t].cookies][PSIDTS] # base0[PSIDTS]
          /\ heap[tasks[t].cookies][NID] = base0[NID]

\* the scan tasks whose cookie set is the identity id with its entry's text
TasksOfEntry(id) ==
    {t \in 1..Len(tasks) :
        /\ tasks[t].src = "scan"
        /\ heap[tasks[t].cookies] =
               (PSID :> id) @@ (PSIDTS :> cache_dir[Filename(id)].text)}

\* C17: without the identity key in the base cookies, every cache candidate
\* is the candidate of one non-empty entry, holding the identity the entry
\* was cached under and the entry's text; an entry the scan has visited has
\* one candidate if it is not empty and none if it is, and once the scan is
\* over every non-empty entry has exactly one.
C17_ScanCacheRule ==
    (PSID \notin DOMAIN base0 /\ pc \notin {"direct", "cache"}) =>
        /\ \A t \in CacheTasks : \E id \in UsableIds : t \in TasksOfEntry(id)
        /\ \A id \in UsableIds :
              Cardinality(TasksOfEntry(id)) =
                  IF Filename(id) \in cache_files THEN 0 ELSE 1
        /\ Cardinality(CacheTasks) = valid_caches
        /\ (pc \in {"browser", "race"} \/ RaceEnded) =>
              /\ cache_files = {}
              /\ Cardinality(CacheTasks) = Cardinality(UsableIds)

\* C17 witness: two entries, one of them under an identity with a dot in
\* it, both not empty, each with its candidate when the scan is over.
C17_Witness ==
    /\ pc = "browser"
    /\ PSID \notin DOMAIN base0
    /\ UsableIds = {<<"a">>, <<"g", ".", "a">>}
    /\ \A id \in UsableIds : Cardinality(TasksOfEntry(id)) = 1
    /\ Len(tasks) = 2

\* the tasks launched by the direct rule
DirectTasks == {t \in 1..Len(tasks) : tasks[t].src = "direct"}

\* C18: once the direct step is over there is a direct candidate exactly
\* when the base cookies hold both required keys; it is the first task, and
\* what it sends is the caller's dictionary itself, as the caller gave it.
C18_DirectRule ==
    pc # "direct" =>
        /\ DirectTasks # {} <=> (PSID \in DOMAIN base0 /\ PSIDTS \in DOMAIN base0)
        /\ \A t \in DirectTasks :
              /\ t = 1
              /\ tasks[t].cookies = BaseRef
              /\ heap[tasks[t].cookies] = base0
        /\ \A t \in 1..Len(tasks) : tasks[t].cookies = BaseRef => t \in DirectTasks

\* C18 witness: base cookies with both keys and a third cookie; the direct
\* candidate is launched and returned, the dictionary being the caller's.
C18_Witness ==
    /\ result.kind = "return"
    /\ DOMAIN base0 = {PSID, PSIDTS, NID}
    /\ Len(tasks) = 3
    /\ result.task \in DirectTasks
    /\ heap[result.cookies] = base0

\* C20: every candidate launched holds the identity key, and so does every
\* cookie set returned.
C20_CandidatesHoldIdentityKey ==
    /\ \A t \in 1..Len(tasks) : PSID \in DOMAIN heap[tasks[t].cookies]
    /\ result.kind = "return" => PSID \in DOMAIN heap[result.cookies]

\* C20 witness: the browser store holds no secondary value; its candidate
\* is launched with the identity key alone, and returned.
C20_Witness ==
    /\ result.kind = "return"
    /\ tasks[result.task].src = "browser"
    /\ DOMAIN heap[result.cookies] = {PSID}

\* C19: when every probe launched completes in the end, the call ends,
\* with a (token, cookies) pair or with the authentication error, having
\* consumed no more completions than it launched candidates.
C19_EndsWithReturnOrAuthError ==
    <>(/\ pc = "done"
       /\ result.kind \in {"return", "AuthError"}
       /\ i <= Len(tasks))

\* What does hold under LiveSpec: the call always ends, and a call that has
\* reached its race ends with a return or with the authentication error.
CallEnds == <>(pc = "done")
RaceEndsWithReturnOrAuthError == (pc = "race") ~> RaceEnded

====
